---- MODULE Spec2Model ----
(***************************************************************************)
(* Model of data_unificator/utils/mapping_utils.py: field metadata         *)
(* extraction, overlap identification, conflict detection, the three       *)
(* conflict resolution strategies and value conversion.                    *)
(*                                                                         *)
(* Encoding of Python / pandas values:                                     *)
(*  - a DataFrame is [kind |-> "DataFrame", columns |-> set of names,      *)
(*    rows |-> sequence of functions column -> cell];                      *)
(*  - a table cell is the string rendering of its value, NaN is the        *)
(*    missing cell; the bookkeeping cells _priority and _weight are        *)
(*    integers;                                                            *)
(*  - a nested value is [kind |-> "dict", items |-> sequence of             *)
(*    <<key, value>> pairs with distinct keys, in insertion order],        *)
(*    [kind |-> "list", items |-> sequence of values] or a scalar, whose   *)
(*    kind is its Python type name;                                        *)
(*  - a result dict whose order no caller reads is a function on its keys. *)
(***************************************************************************)
EXTENDS Integers, Sequences, FiniteSets, TLC

VARIABLES
    pc,                \* "ready" before the call, "done" after it
    \* conflict detection and resolution
    aligned_data,      \* the list of Aligned Data Items
    strategy,          \* the strategy resolve_conflicts was called with
    source_weights,    \* the caller's dict source -> weight
    source_hierarchy,  \* the caller's ranking list
    resolved_data,     \* what resolve_conflicts returned
    conflicts,         \* what detect_conflicts returned
    \* metadata extraction
    data,              \* the argument of extract_fields_metadata
    metadata,          \* what it returned
    \* overlap identification
    field_metadata,    \* the argument of identify_overlaps
    overlaps,          \* what it returned
    \* value conversion
    value,             \* the arguments of convert_value_to_type
    new_type,
    returned,          \* what it returned
    raised,            \* whether an exception left it
    error_log          \* the messages handed to log_error

reconcileVars == <<aligned_data, strategy, source_weights, source_hierarchy,
                   resolved_data, conflicts>>
extractVars == <<data, metadata>>
overlapVars == <<field_metadata, overlaps>>
convertVars == <<value, new_type, returned, raised, error_log>>

vars == <<pc, reconcileVars, extractVars, overlapVars, convertVars>>

(***************************************************************************)
(* Bounds of the model.                                                    *)
(***************************************************************************)
\* total number of rows over all the tables of one aligned_data input of a
\* resolution strategy
MaxRows == 2
\* total number of rows over all the tables of one input of detect_conflicts
MaxDetectRows == 3
\* length of the caller's source_hierarchy list
MaxHierarchy == 2
\* length of a list of a nested document
MaxListLen == 6
\* number of sources in the argument of identify_overlaps
MaxSources == 3
\* length of the strings handed to convert_value_to_type
MaxStrLen == 3

(***************************************************************************)
(* Generic helpers.                                                        *)
(***************************************************************************)
\* the empty Python dict
EmptyDict == <<>>

\* None
None == [kind |-> "NoneType"]

\* the variables of an operation that is not part of the run
NoReconcile ==
    /\ aligned_data = <<>>
    /\ strategy = "none"
    /\ source_weights = EmptyDict
    /\ source_hierarchy = <<>>
    /\ resolved_data = <<>>
    /\ conflicts = EmptyDict

NoExtract == data = None /\ metadata = EmptyDict

NoOverlaps == field_metadata = <<>> /\ overlaps = <<>>

NoConvert ==
    /\ value = None
    /\ new_type = "none"
    /\ returned = None
    /\ raised = FALSE
    /\ error_log = <<>>

Range(s) == {s[i] : i \in DOMAIN s}

SeqsOfLen(S, n) == [1..n -> S]

RECURSIVE Concat(_)
Concat(ss) == IF ss = <<>> THEN <<>> ELSE Head(ss) \o Concat(Tail(ss))

SetMax(S) == CHOOSE x \in S : \A y \in S : y <= x

NaN == "NaN"

IsDataFrame(d) == d.kind = "DataFrame"

(***************************************************************************)
(* pandas primitives used by the resolution strategies.                    *)
(***************************************************************************)
\* df[col] = val : set (or add) a column holding one scalar in every row
SetColumn(df, col, val) ==
    [kind |-> "DataFrame",
     columns |-> df.columns \cup {col},
     rows |-> [i \in DOMAIN df.rows |->
                 [c \in df.columns \cup {col} |->
                    IF c = col THEN val ELSE df.rows[i][c]]]]

\* set.intersection(*(set(df.columns) for df in data_frames)), data_frames non-empty
IntersectColumns(data_frames) ==
    {c \in data_frames[1].columns :
        \A i \in DOMAIN data_frames : c \in data_frames[i].columns}

UnionColumns(data_frames) ==
    UNION {data_frames[i].columns : i \in DOMAIN data_frames}

\* pd.concat(data_frames, ignore_index=True, sort=False): row union, a column a
\* frame lacks is NaN in that frame's rows
pd_concat(data_frames) ==
    LET cols == UnionColumns(data_frames)
        widen(r) == [c \in cols |-> IF c \in DOMAIN r THEN r[c] ELSE NaN]
    IN  [kind |-> "DataFrame",
         columns |-> cols,
         rows |-> Concat([i \in DOMAIN data_frames |->
                     [j \in DOMAIN data_frames[i].rows |->
                         widen(data_frames[i].rows[j])]])]

RemoveAt(s, i) == [j \in 1..(Len(s) - 1) |-> IF j < i THEN s[j] ELSE s[j + 1]]

\* Row a may stand before row b in the sorted frame.
SortBefore(a, b, col, ascending) ==
    IF ascending THEN a[col] <= b[col] ELSE a[col] >= b[col]

\* DataFrame.sort_values(col, ascending=...): the default kind is quicksort, which
\* is not stable, so every order of the rows that is sorted by col is an outcome.
RECURSIVE SortedOrders(_, _, _)
SortedOrders(rows, col, ascending) ==
    IF rows = <<>> THEN {<<>>}
    ELSE UNION {
           {<<rows[i]>> \o rest :
               rest \in SortedOrders(RemoveAt(rows, i), col, ascending)} :
           i \in {k \in DOMAIN rows :
                    \A j \in DOMAIN rows :
                        SortBefore(rows[k], rows[j], col, ascending)}}

sort_values(df, col, ascending) ==
    {[kind |-> "DataFrame", columns |-> df.columns, rows |-> rs] :
        rs \in SortedOrders(df.rows, col, ascending)}

SameKey(a, b, key_columns) == \A c \in key_columns : a[c] = b[c]

\* drop_duplicates() without its subset: rows are compared in all their columns
KeepFirstWholeRow(rows, key_columns) ==
    SelectSeq([i \in DOMAIN rows |-> <<i, rows[i]>>],
              LAMBDA p : ~ \E j \in 1..(p[1] - 1) : rows[j] = p[2])

\* the rows drop_duplicates(subset=key_columns, keep='first') keeps: a row goes
\* when an earlier row has the same cells in every key column (NaN equals NaN)
KeepFirst(rows, key_columns) ==
    SelectSeq([i \in DOMAIN rows |-> <<i, rows[i]>>],
              LAMBDA p : ~ \E j \in 1..(p[1] - 1) :
                               SameKey(rows[j], p[2], key_columns))

drop_duplicates(df, key_columns) ==
    LET kept == KeepFirst(df.rows, key_columns)
    IN  [kind |-> "DataFrame", columns |-> df.columns,
         rows |-> [i \in DOMAIN kept |-> kept[i][2]]]

\* DataFrame.drop(columns=dropped)
drop_columns(df, dropped) ==
    [kind |-> "DataFrame",
     columns |-> df.columns \ dropped,
     rows |-> [i \in DOMAIN df.rows |->
                 [c \in df.columns \ dropped |-> df.rows[i][c]]]]

\* a dropna that drops nothing
dropna_nothing(df, col, missing) == df

\* DataFrame.dropna(subset=[col]) on a column whose missing value is `missing`
dropna_subset(df, col, missing) ==
    [kind |-> "DataFrame", columns |-> df.columns,
     rows |-> SelectSeq(df.rows, LAMBDA r : r[col] # missing)]

(***************************************************************************)
(* Conflict resolution.                                                    *)
(***************************************************************************)
\* the aligned items that pass the isinstance(df, pd.DataFrame) test and have
\* the columns in `needed`
TabularItems(aligned, needed) ==
    SelectSeq(aligned, LAMBDA it : IsDataFrame(it.data) /\ needed \subseteq it.data.columns)

ResolvedData(df) == <<[file |-> "resolved_data", data |-> df]>>

\* {source: idx for idx, source in enumerate(source_hierarchy)}: a repeated name
\* keeps the index of its last occurrence
source_priority(hierarchy) ==
    [s \in Range(hierarchy) |->
        SetMax({i \in DOMAIN hierarchy : hierarchy[i] = s}) - 1]

\* source_priority.get(file_name, len(source_priority))
PriorityOf(file_name, hierarchy) ==
    IF file_name \in Range(hierarchy)
    THEN source_priority(hierarchy)[file_name]
    ELSE Cardinality(Range(hierarchy))

\* source_weights.get(file_name, 10): another default weight
WeightOfDefaultTen(file_name, weights) ==
    IF file_name \in DOMAIN weights THEN weights[file_name] ELSE 10

\* source_weights.get(file_name, 0)
WeightOf(file_name, weights) ==
    IF file_name \in DOMAIN weights THEN weights[file_name] ELSE 0

\* the common columns with the discards of the bookkeeping columns left out
KeyColumnsNoDiscard(data_frames, bookkeeping) ==
    IntersectColumns(data_frames)

\* common_columns = set.intersection(...); common_columns.discard(...) for each
\* bookkeeping column; key_columns = list(common_columns)
KeyColumns(data_frames, bookkeeping) ==
    IntersectColumns(data_frames) \ bookkeeping

\* sort by the priority signal, keep the first row of every key, strip bookkeeping
SortDedupDrop(combined_df, key_columns, col, ascending, bookkeeping) ==
    {ResolvedData(drop_columns(drop_duplicates(sorted, key_columns), bookkeeping)) :
        sorted \in sort_values(combined_df, col, ascending)}

\* The set of values resolve_conflicts_hierarchy can return.
resolve_conflicts_hierarchy(aligned, hierarchy) ==
    LET items == TabularItems(aligned, {})
        data_frames == [i \in DOMAIN items |->
            SetColumn(SetColumn(items[i].data, "_source", items[i].file),
                      "_priority", PriorityOf(items[i].file, hierarchy))]
    IN  IF data_frames = <<>> THEN {aligned}
        ELSE LET combined_df == pd_concat(data_frames)
                 key_columns == KeyColumns(data_frames, {"_source", "_priority"})
             IN  IF key_columns = {} THEN {aligned}
                 ELSE SortDedupDrop(combined_df, key_columns, "_priority", TRUE,
                                    {"_source", "_priority"})

\* The set of values resolve_conflicts_weighted can return.
resolve_conflicts_weighted(aligned, weights) ==
    LET items == TabularItems(aligned, {})
        data_frames == [i \in DOMAIN items |->
            SetColumn(SetColumn(items[i].data, "_source", items[i].file),
                      "_weight", WeightOf(items[i].file, weights))]
    IN  IF data_frames = <<>> THEN {aligned}
        ELSE LET combined_df == pd_concat(data_frames)
                 key_columns == KeyColumns(data_frames, {"_source", "_weight"})
             IN  IF key_columns = {} THEN {aligned}
                 ELSE SortDedupDrop(combined_df, key_columns, "_weight", FALSE,
                                    {"_source", "_weight"})

\* pd.NaT, the parsed value of a timestamp that cannot be parsed
NaT == 0

\* pd.to_datetime(cell, errors='coerce') on the timestamp cells of the model:
\* an ISO date parses (to its day number yyyymmdd), anything else is NaT
to_datetime(cell) ==
    CASE cell = "2024-01-01" -> 20240101
      [] cell = "2024-02-01" -> 20240201
      [] OTHER -> NaT

\* combined_df['timestamp'] = pd.to_datetime(combined_df['timestamp'], errors='coerce')
ParseTimestamps(df) ==
    [kind |-> "DataFrame", columns |-> df.columns,
     rows |-> [i \in DOMAIN df.rows |->
                 [c \in df.columns |->
                    IF c = "timestamp" THEN to_datetime(df.rows[i][c])
                    ELSE df.rows[i][c]]]]

\* The set of values resolve_conflicts_time_based can return.
resolve_conflicts_time_based(aligned) ==
    LET items == TabularItems(aligned, {"timestamp"})
        data_frames == [i \in DOMAIN items |->
            SetColumn(items[i].data, "_source", items[i].file)]
    IN  IF data_frames = <<>> THEN {aligned}
        ELSE LET combined_df ==
                     dropna_subset(ParseTimestamps(pd_concat(data_frames)),
                                   "timestamp", NaT)
                 key_columns == KeyColumns(data_frames, {"_source", "timestamp"})
             IN  IF key_columns = {} THEN {aligned}
                 ELSE SortDedupDrop(combined_df, key_columns, "timestamp", FALSE,
                                    {"_source", "timestamp"})

\* The set of values resolve_conflicts can return.
resolve_conflicts(aligned, found, strat, weights, hierarchy) ==
    IF strat = "Manual" THEN {aligned}
    ELSE IF strat = "Hierarchy-based"
         THEN resolve_conflicts_hierarchy(aligned, hierarchy)
    ELSE IF strat = "Weight-based"
         THEN resolve_conflicts_weighted(aligned, weights)
    ELSE IF strat = "Time-based"
         THEN resolve_conflicts_time_based(aligned)
    ELSE {aligned}

(***************************************************************************)
(* Inputs of the resolution strategies.                                    *)
(***************************************************************************)
Sources == <<"A", "B">>

CellValues(c) ==
    CASE c = "id" -> {"1", "2"}
      [] c = "v" -> {"a", "b"}
      [] c = "w" -> {"x"}
      [] c = "timestamp" -> {"2024-01-01", "2024-02-01", "not-a-date"}

Rows(cols) ==
    {r \in [cols -> UNION {CellValues(c) : c \in cols}] :
        \A c \in cols : r[c] \in CellValues(c)}

\* the tables over the column sets `colsets` that hold k rows
Frames(colsets, k) ==
    UNION {{[kind |-> "DataFrame", columns |-> cols, rows |-> rs] :
               rs \in SeqsOfLen(Rows(cols), k)} : cols \in colsets}

\* a non-tabular Source Record Set (a parsed JSON or XML document)
NestedData == [kind |-> "dict"]

\* the aligned_data lists with (in order) at most one item per source of srcs and
\* n rows in all
RECURSIVE AlignedInputs(_, _, _)
AlignedInputs(srcs, colsets, n) ==
    IF srcs = <<>> THEN {<<>>}
    ELSE AlignedInputs(Tail(srcs), colsets, n)
         \cup {<<[file |-> Head(srcs), data |-> NestedData]>> \o rest :
                  rest \in AlignedInputs(Tail(srcs), colsets, n)}
         \cup UNION {
                {<<[file |-> Head(srcs), data |-> f]>> \o rest :
                    f \in Frames(colsets, k),
                    rest \in AlignedInputs(Tail(srcs), colsets, n - k)} :
                k \in 0..n}

ResolveColumnSets ==
    {{"id"}, {"id", "v"}, {"timestamp"}, {"id", "timestamp"},
     {"id", "timestamp", "w"}}

Hierarchies ==
    UNION {SeqsOfLen(Range(Sources), n) : n \in 0..MaxHierarchy}

Weights == {-1, 1, 5}

SourceWeights ==
    UNION {[S -> Weights] : S \in SUBSET Range(Sources)}

NoWeights == EmptyDict

InitResolve ==
    /\ pc = "ready"
    /\ aligned_data \in AlignedInputs(Sources, ResolveColumnSets, MaxRows)
    /\ strategy = "none"
    /\ source_weights = NoWeights
    /\ source_hierarchy = <<>>
    /\ resolved_data = <<>>
    /\ conflicts = EmptyDict
    /\ NoExtract /\ NoOverlaps /\ NoConvert

Resolve(strat, weights, hierarchy) ==
    /\ pc = "ready"
    /\ \E out \in resolve_conflicts(aligned_data, conflicts, strat, weights, hierarchy) :
           resolved_data' = out
    /\ strategy' = strat
    /\ source_weights' = weights
    /\ source_hierarchy' = hierarchy
    /\ pc' = "done"
    /\ UNCHANGED <<aligned_data, conflicts, extractVars, overlapVars, convertVars>>

Manual == Resolve("Manual", NoWeights, <<>>)

HierarchyBased == \E h \in Hierarchies : Resolve("Hierarchy-based", NoWeights, h)

WeightBased == \E w \in SourceWeights : Resolve("Weight-based", w, <<>>)

TimeBased == Resolve("Time-based", NoWeights, <<>>)

NextResolve == Manual \/ HierarchyBased \/ WeightBased \/ TimeBased

SpecResolve == InitResolve /\ [][NextResolve]_vars

(***************************************************************************)
(* Vocabulary of the claims about resolution.                              *)
(***************************************************************************)
ImplementedStrategies == {"Hierarchy-based", "Weight-based", "Time-based"}

\* a resolved table was produced
Resolved ==
    /\ pc = "done"
    /\ strategy \in ImplementedStrategies
    /\ Len(resolved_data) = 1
    /\ resolved_data[1].file = "resolved_data"

ResolvedRows == resolved_data[1].data.rows

\* the positions of the usable tabular items of aligned_data under strategy strat
Considered(strat) ==
    {i \in DOMAIN aligned_data :
        /\ IsDataFrame(aligned_data[i].data)
        /\ strat = "Time-based" => "timestamp" \in aligned_data[i].data.columns}

AllColumns(strat) ==
    UNION {aligned_data[i].data.columns : i \in Considered(strat)}

\* the common-key columns: the columns of every usable table (timestamp is
\* bookkeeping for the Time-based strategy)
CommonKey(strat) ==
    {c \in AllColumns(strat) :
        \A i \in Considered(strat) : c \in aligned_data[i].data.columns}
    \ (IF strat = "Time-based" THEN {"timestamp"} ELSE {})

\* the rows of the usable tables, each with its source, over all the columns
InputRows(strat) ==
    UNION {{[source |-> aligned_data[i].file,
             row |-> [c \in AllColumns(strat) |->
                        IF c \in aligned_data[i].data.columns
                        THEN aligned_data[i].data.rows[j][c] ELSE NaN]] :
               j \in DOMAIN aligned_data[i].data.rows} :
           i \in Considered(strat)}

\* input rows x and y hold the same values in the columns of key
SameKeyTuple(x, y, key) == \A c \in key : x.row[c] = y.row[c]

\* the sources that hold the key tuple of input row x
Holders(x, ins, key) ==
    {y.source : y \in {z \in ins : SameKeyTuple(x, z, key)}}

\* C2: whenever one of the three strategies produces a resolved table, no two of
\* its rows have the same values in all common-key columns.
C2_OneRowPerKey ==
    Resolved =>
        LET key == CommonKey(strategy)
            rows == ResolvedRows
        IN  \A i, j \in DOMAIN rows :
                i < j => \E c \in key : rows[i][c] # rows[j][c]

\* C2's case: one source alone holds two rows with the same key, and the
\* Time-based strategy resolved them to one row
C2_Witness ==
    /\ Resolved
    /\ strategy = "Time-based"
    /\ \E i \in Considered(strategy) :
          \E j, k \in DOMAIN aligned_data[i].data.rows :
              /\ j < k
              /\ \A c \in CommonKey(strategy) :
                     aligned_data[i].data.rows[j][c] = aligned_data[i].data.rows[k][c]
              /\ to_datetime(aligned_data[i].data.rows[j]["timestamp"]) # NaT
              /\ to_datetime(aligned_data[i].data.rows[k]["timestamp"]) # NaT
    /\ Len(ResolvedRows) = 1

\* the rank the caller's list gives a source: the place of its first occurrence,
\* and a source that is not in the list ranks after every listed source
Rank(s) ==
    IF s \in Range(source_hierarchy)
    THEN CHOOSE i \in DOMAIN source_hierarchy :
            /\ source_hierarchy[i] = s
            /\ \A j \in 1..(i - 1) : source_hierarchy[j] # s
    ELSE Len(source_hierarchy) + 1

\* every input row x (of those in scope) has a resolved row with its key, and that
\* row is, in all of its columns, an input row y of the same key that wins(y, z)
\* against every input row z of that key
WinnerSurvives(ins, key, scope(_), shown(_), wins(_, _)) ==
    LET rows == ResolvedRows
    IN  \A x \in ins :
            scope(x) =>
                \E i \in DOMAIN rows :
                    /\ \A c \in key : rows[i][c] = x.row[c]
                    /\ \E y \in ins :
                          /\ SameKeyTuple(x, y, key)
                          /\ rows[i] = shown(y.row)
                          /\ \A z \in ins :
                                SameKeyTuple(x, z, key) => wins(y, z)

\* C3: Hierarchy-based resolution: for every key tuple held by rows of two or more
\* sources, the surviving row is, in all of its columns, a row of the source that
\* appears earliest in source_hierarchy among the sources holding that key, a
\* source that is not in the list ranking after every listed source.
C3_HierarchyWinner ==
    (Resolved /\ strategy = "Hierarchy-based") =>
        LET ins == InputRows(strategy)
            key == CommonKey(strategy)
        IN  WinnerSurvives(ins, key,
                LAMBDA x : Cardinality(Holders(x, ins, key)) >= 2,
                LAMBDA r : r,
                LAMBDA y, z : Rank(y.source) <= Rank(z.source))

\* C3 restricted to a source_hierarchy that names no source twice
C3_HierarchyWinnerNoRepeats ==
    (\A i, j \in DOMAIN source_hierarchy :
        source_hierarchy[i] = source_hierarchy[j] => i = j)
    => C3_HierarchyWinner

Weight(s) == IF s \in DOMAIN source_weights THEN source_weights[s] ELSE 0

\* C4: Weight-based resolution: for the rows of the sources that hold one key, the
\* resolved row equals, in all of its columns, a row of the source with the
\* greatest weight among them, a source without a weight counting as weight 0.
C4_WeightWinner ==
    (Resolved /\ strategy = "Weight-based") =>
        LET ins == InputRows(strategy)
            key == CommonKey(strategy)
        IN  WinnerSurvives(ins, key,
                LAMBDA x : TRUE,
                LAMBDA r : r,
                LAMBDA y, z : Weight(y.source) >= Weight(z.source))

\* C4's case: A (weight 1) and B (weight 5) hold different rows for key id = 1
\* and the resolved row is B's
C4_Witness ==
    /\ Resolved
    /\ strategy = "Weight-based"
    /\ source_weights = [s \in {"A", "B"} |-> IF s = "A" THEN 1 ELSE 5]
    /\ aligned_data =
         <<[file |-> "A", data |-> [kind |-> "DataFrame", columns |-> {"id", "v"},
                                    rows |-> <<[id |-> "1", v |-> "a"]>>]],
           [file |-> "B", data |-> [kind |-> "DataFrame", columns |-> {"id"},
                                    rows |-> <<[id |-> "1"]>>]]>>
    /\ ResolvedRows = <<[id |-> "1", v |-> NaN]>>

\* input row x has a timestamp that parses
Parseable(x) == to_datetime(x.row["timestamp"]) # NaT

\* y's timestamp parses and is no earlier than z's, when z's parses
NoEarlier(y, z) ==
    /\ Parseable(y)
    /\ Parseable(z)
          => to_datetime(y.row["timestamp"]) >= to_datetime(z.row["timestamp"])

\* C5 as stated: Time-based resolution: for every key tuple, the resolved row
\* equals (in every column, timestamp included) the input row with the latest
\* parseable timestamp among the rows with that key, and a row whose timestamp
\* cannot be parsed never appears and never decides which row wins.
C5_TimeWinnerWholeRow ==
    (Resolved /\ strategy = "Time-based") =>
        LET ins == InputRows(strategy)
            key == CommonKey(strategy)
            rows == ResolvedRows
        IN  /\ WinnerSurvives(ins, key, Parseable, LAMBDA r : r, NoEarlier)
            /\ \A i \in DOMAIN rows :
                  \E y \in ins :
                      Parseable(y) /\ \A c \in key : rows[i][c] = y.row[c]

\* row with its timestamp cell removed
WithoutTimestamp(row) == [c \in (DOMAIN row) \ {"timestamp"} |-> row[c]]

\* C5 as amended: the resolved table has no timestamp column; for every key with
\* a parseable row, the resolved row equals, in every column other than
\* timestamp, an input row with the latest parseable timestamp among the rows
\* with that key; and every resolved row has the key of a parseable row, so a
\* row whose timestamp cannot be parsed never appears and never decides which
\* row wins.
C5_TimeWinner ==
    (Resolved /\ strategy = "Time-based") =>
        LET ins == InputRows(strategy)
            key == CommonKey(strategy)
            rows == ResolvedRows
        IN  /\ "timestamp" \notin resolved_data[1].data.columns
            /\ WinnerSurvives(ins, key, Parseable, WithoutTimestamp, NoEarlier)
            /\ \A i \in DOMAIN rows :
                  \E y \in ins :
                      Parseable(y) /\ \A c \in key : rows[i][c] = y.row[c]

\* C5's case: A holds key id = 1 at 2024-01-01, B holds it at 2024-02-01, and the
\* resolved row is B's without its timestamp
C5_Witness ==
    /\ Resolved
    /\ strategy = "Time-based"
    /\ aligned_data =
         <<[file |-> "A",
            data |-> [kind |-> "DataFrame", columns |-> {"id", "timestamp", "w"},
                      rows |-> <<[id |-> "1", timestamp |-> "2024-01-01",
                                  w |-> "x"]>>]],
           [file |-> "B",
            data |-> [kind |-> "DataFrame", columns |-> {"id", "timestamp"},
                      rows |-> <<[id |-> "1", timestamp |-> "2024-02-01"]>>]]>>
    /\ ResolvedRows = <<[id |-> "1", w |-> NaN]>>

\* C6: for each of the three strategies, if the input has no usable tabular item,
\* or the usable tables have no common column besides bookkeeping columns, the
\* strategy returns the original aligned_data unchanged.
C6_StructuralNoOp ==
    (/\ pc = "done"
     /\ strategy \in ImplementedStrategies
     /\ (Considered(strategy) = {} \/ CommonKey(strategy) = {}))
    => resolved_data = aligned_data

\* C6's case: the usable tables of a Time-based run share only the timestamp
\* column, and the input came back unchanged
C6_Witness ==
    /\ pc = "done"
    /\ strategy = "Time-based"
    /\ Cardinality(Considered(strategy)) = 2
    /\ CommonKey(strategy) = {}
    /\ \E i \in Considered(strategy) : aligned_data[i].data.rows # <<>>
    /\ resolved_data = aligned_data

(***************************************************************************)
(* Conflict detection.                                                     *)
(***************************************************************************)
\* Series.unique(): the distinct values in order of first appearance
Unique(values) ==
    LET kept == SelectSeq([i \in DOMAIN values |-> <<i, values[i]>>],
                          LAMBDA p : ~ \E j \in 1..(p[1] - 1) : values[j] = p[2])
    IN  [i \in DOMAIN kept |-> kept[i][2]]

\* rows[column].dropna().unique().tolist()
DropnaUnique(rows, column) ==
    Unique(SelectSeq([i \in DOMAIN rows |-> rows[i][column]],
                     LAMBDA v : v # NaN))

\* len(values) > 1
SeveralValues(values) == Len(values) > 1

\* one source is enough for a group to be inspected
SeveralSourcesAny(group) == TRUE

\* len(group['_source'].unique()) > 1
SeveralSources(group) == Len(DropnaUnique(group, "_source")) > 1

\* the conflicting_values of one column of a group: for every source, in the order
\* of source_names, its distinct non-null values, when it has any
ConflictingValues(group, column, source_names) ==
    LET source_values(source) ==
            DropnaUnique(SelectSeq(group, LAMBDA r : r["_source"] = source), column)
    IN  [source \in {n \in Range(source_names) : Len(source_values(n)) > 0} |->
            source_values(source)]

\* the conflicting_fields of one group
ConflictingFields(group, columns, key_columns, source_names) ==
    [column \in {c \in columns \ (key_columns \cup {"_source"}) :
                    SeveralValues(DropnaUnique(group, c))} |->
        ConflictingValues(group, column, source_names)]

\* detect_conflicts: the conflicts dict, a function from the key of a group (one
\* cell per key column) to its conflicting_fields
detect_conflicts(aligned) ==
    LET items == TabularItems(aligned, {})
        data_frames == [i \in DOMAIN items |->
            SetColumn(items[i].data, "_source", items[i].file)]
        source_names == [i \in DOMAIN items |-> items[i].file]
    IN  IF data_frames = <<>> THEN EmptyDict
        ELSE LET key_columns == KeyColumns(data_frames, {"_source"})
             IN  IF key_columns = {} THEN EmptyDict
                 ELSE
        LET combined_df == pd_concat(data_frames)
            \* groupby(key_columns) leaves out the rows with a null key cell
            keyed == SelectSeq(combined_df.rows,
                               LAMBDA r : \A c \in key_columns : r[c] # NaN)
            group_keys == {[c \in key_columns |-> keyed[i][c]] : i \in DOMAIN keyed}
            group(k) == SelectSeq(keyed, LAMBDA r : \A c \in key_columns : r[c] = k[c])
            fields(k) == ConflictingFields(group(k), combined_df.columns,
                                           key_columns, source_names)
        IN  [k \in {g \in group_keys :
                       SeveralSources(group(g)) /\ DOMAIN fields(g) # {}} |->
                fields(k)]

DetectSources == <<"A", "B", "C">>

DetectColumnSets == {{"id"}, {"id", "v"}}

InitDetect ==
    /\ pc = "ready"
    /\ aligned_data \in AlignedInputs(DetectSources, DetectColumnSets, MaxDetectRows)
    /\ strategy = "none"
    /\ source_weights = NoWeights
    /\ source_hierarchy = <<>>
    /\ resolved_data = <<>>
    /\ conflicts = EmptyDict
    /\ NoExtract /\ NoOverlaps /\ NoConvert

DetectConflicts ==
    /\ pc = "ready"
    /\ conflicts' = detect_conflicts(aligned_data)
    /\ pc' = "done"
    /\ UNCHANGED <<aligned_data, strategy, source_weights, source_hierarchy,
                   resolved_data, extractVars, overlapVars, convertVars>>

NextDetect == DetectConflicts

SpecDetect == InitDetect /\ [][NextDetect]_vars

\* tabular sources A and B, both with the columns id and v, A holding the row
\* (id = 1, v = va) and B the row (id = 1, v = vb)
TwoSources(va, vb) ==
    <<[file |-> "A", data |-> [kind |-> "DataFrame", columns |-> {"id", "v"},
                               rows |-> <<[id |-> "1", v |-> va]>>]],
      [file |-> "B", data |-> [kind |-> "DataFrame", columns |-> {"id", "v"},
                               rows |-> <<[id |-> "1", v |-> vb]>>]]>>

\* C1: on A = {(id = 1, v = "a")} and B = {(id = 1, v = "b")}, detect_conflicts
\* returns exactly one Conflict Entry, keyed by (1,), that reports column v with
\* {A: ["a"], B: ["b"]}; when A and B hold the same v, no entry has that key.
C1_DetectsConflictingRows ==
    /\ (pc = "done" /\ aligned_data = TwoSources("a", "b")) =>
          /\ Cardinality(DOMAIN conflicts) = 1
          /\ \A k \in DOMAIN conflicts :
                /\ k = [id |-> "1"]
                /\ DOMAIN conflicts[k] = {"v"}
                /\ DOMAIN conflicts[k]["v"] = {"A", "B"}
                /\ conflicts[k]["v"]["A"] = <<"a">>
                /\ conflicts[k]["v"]["B"] = <<"b">>
    /\ (pc = "done" /\ aligned_data = TwoSources("a", "a")) =>
          \A k \in DOMAIN conflicts : k # [id |-> "1"]

\* C10 as stated: every column listed in a returned Conflict Entry has non-null
\* values recorded for at least two distinct sources of the group, and those
\* sources' values differ, for any number of tabular sources.
C10_MultiSourceDisagreement ==
    pc = "done" =>
        \A k \in DOMAIN conflicts :
            \A column \in DOMAIN conflicts[k] :
                LET recorded == conflicts[k][column]
                IN  /\ Cardinality(DOMAIN recorded) >= 2
                    /\ \E s, t \in DOMAIN recorded : recorded[s] # recorded[t]

\* the input rows of the group with key k
GroupOf(k) ==
    {x \in InputRows("none") : \A c \in DOMAIN k : x.row[c] = k[c]}

\* the distinct non-null values the rows of G hold in column
NonNull(G, column) == {x.row[column] : x \in G} \ {NaN}

\* C10 as amended: a Conflict Entry is recorded only for a key group that holds
\* rows of at least two distinct sources; it lists at least one column, every
\* listed column is a non-key column with more than one distinct non-null value
\* over the rows of the group (whichever sources they come from), and for it the
\* entry records, for exactly the sources with a non-null value, their values.
C10_GroupWideDisagreement ==
    pc = "done" =>
        \A k \in DOMAIN conflicts :
            LET G == GroupOf(k)
            IN  /\ DOMAIN k = CommonKey("none")
                /\ Cardinality({x.source : x \in G}) >= 2
                /\ DOMAIN conflicts[k] # {}
                /\ \A column \in DOMAIN conflicts[k] :
                      LET recorded == conflicts[k][column]
                          of(s) == NonNull({x \in G : x.source = s}, column)
                      IN  /\ column \notin DOMAIN k
                          /\ Cardinality(NonNull(G, column)) >= 2
                          /\ DOMAIN recorded = {x.source : x \in {y \in G : of(y.source) # {}}}
                          /\ \A s \in DOMAIN recorded : Range(recorded[s]) = of(s)

\* C10's case: an entry whose column v is recorded for one source only, the group
\* holding rows of two sources
C10_Witness ==
    /\ pc = "done"
    /\ \E k \in DOMAIN conflicts :
          /\ "v" \in DOMAIN conflicts[k]
          /\ Cardinality(DOMAIN conflicts[k]["v"]) = 1
          /\ Cardinality({x.source : x \in GroupOf(k)}) = 2

(***************************************************************************)
(* Metadata extraction.                                                    *)
(***************************************************************************)
\* max_sample_values = 5
max_sample_values == 5

IsContainer(v) == v.kind \in {"dict", "list"}

\* current_path = f"{path}.{key}" if path else key
CurrentPath(path, key) == IF path # "" THEN path \o "." \o key ELSE key

\* the else branch of the dict loop: a scalar value creates the entry of its path
\* or, while the entry holds fewer than max_sample_values samples, appends to it
RecordLeaf(meta, current_path, leaf) ==
    IF current_path \notin DOMAIN meta
    THEN [p \in DOMAIN meta \cup {current_path} |->
            IF p = current_path
            THEN [dtype |-> leaf.kind, sample_values |-> <<leaf>>]
            ELSE meta[p]]
    ELSE IF Len(meta[current_path].sample_values) < max_sample_values
         THEN [meta EXCEPT ![current_path].sample_values = Append(@, leaf)]
         ELSE meta

RECURSIVE traverse(_, _, _)
RECURSIVE TraverseItems(_, _, _)
RECURSIVE TraverseElements(_, _, _)

\* for key, value in data.items(): ...
TraverseItems(items, path, meta) ==
    IF items = <<>> THEN meta
    ELSE LET key == Head(items)[1]
             val == Head(items)[2]
             current_path == CurrentPath(path, key)
         IN  TraverseItems(Tail(items), path,
                 IF IsContainer(val)
                 THEN traverse(val, current_path, meta)
                 ELSE RecordLeaf(meta, current_path, val))

\* for item in data: traverse(item, path)
TraverseElements(items, path, meta) ==
    IF items = <<>> THEN meta
    ELSE TraverseElements(Tail(items), path, traverse(Head(items), path, meta))

\* traverse(data, path), as the metadata it leaves behind
traverse(d, path, meta) ==
    IF d.kind = "dict" THEN TraverseItems(d.items, path, meta)
    ELSE IF d.kind = "list" THEN TraverseElements(d.items, path, meta)
    ELSE meta

\* extract_fields_metadata
extract_fields_metadata(d) ==
    IF IsDataFrame(d)
    THEN [column \in d.columns |->
            [dtype |-> "object",
             sample_values |->
                 LET values == DropnaUnique(d.rows, column)
                 IN  SubSeq(values, 1,
                            IF Len(values) < max_sample_values
                            THEN Len(values) ELSE max_sample_values)]]
    ELSE traverse(d, "", EmptyDict)

(***************************************************************************)
(* Inputs of the extraction: nested documents.                             *)
(***************************************************************************)
PyInt(n) == [kind |-> "int", n |-> n]
\* a str is the sequence of its characters
PyStr(chars) == [kind |-> "str", chars |-> chars]
Dict(items) == [kind |-> "dict", items |-> items]
List(items) == [kind |-> "list", items |-> items]

Scalars == {PyInt(1), PyStr(<<"x">>)}

\* what a list may hold: a scalar or a record with one field
Elements == {PyInt(1)} \cup {Dict(<<<<"a", s>>>>) : s \in Scalars}

Lists == UNION {{List(e) : e \in SeqsOfLen(Elements, n)} : n \in 0..MaxListLen}

ShortLists == UNION {{List(e) : e \in SeqsOfLen(Scalars, n)} : n \in 0..2}

Documents ==
    Lists
    \cup {Dict(<<<<"r", l>>>>) : l \in Lists}
    \cup {Dict(<<<<"a", s>>, <<"r", l>>>>) : s \in Scalars, l \in Lists}
    \cup {Dict(<<<<"r", Dict(<<<<"a", s>>, <<"tags", l>>>>)>>>>) :
             s \in Scalars, l \in ShortLists}
    \cup Scalars

InitExtract ==
    /\ pc = "ready"
    /\ data \in Documents
    /\ metadata = EmptyDict
    /\ NoReconcile /\ NoOverlaps /\ NoConvert

ExtractFieldsMetadata ==
    /\ pc = "ready"
    /\ metadata' = extract_fields_metadata(data)
    /\ pc' = "done"
    /\ UNCHANGED <<data, reconcileVars, overlapVars, convertVars>>

NextExtract == ExtractFieldsMetadata

SpecExtract == InitExtract /\ [][NextExtract]_vars

\* the scalar leaves (non-dict, non-list values) of d with their paths, in
\* traversal order: dict keys extend the path with '.', list elements do not
RECURSIVE Leaves(_, _)
RECURSIVE LeavesOfItems(_, _)
RECURSIVE LeavesOfElements(_, _)
LeavesOfItems(items, path) ==
    IF items = <<>> THEN <<>>
    ELSE Leaves(Head(items)[2], CurrentPath(path, Head(items)[1]))
         \o LeavesOfItems(Tail(items), path)

LeavesOfElements(items, path) ==
    IF items = <<>> THEN <<>>
    ELSE Leaves(Head(items), path) \o LeavesOfElements(Tail(items), path)

Leaves(d, path) ==
    IF d.kind = "dict" THEN LeavesOfItems(d.items, path)
    ELSE IF d.kind = "list" THEN LeavesOfElements(d.items, path)
    ELSE <<[path |-> path, leaf |-> d]>>

\* the values of the leaves found at path p, in traversal order
LeavesAt(d, p) ==
    LET at == SelectSeq(Leaves(d, ""), LAMBDA l : l.path = p)
    IN  [i \in DOMAIN at |-> at[i].leaf]

FirstFive(values) ==
    SubSeq(values, 1, IF Len(values) < 5 THEN Len(values) ELSE 5)

FieldPaths(d) == {l.path : l \in Range(Leaves(d, ""))} \ {""}

\* C7: for every field path, the path's sample_values is exactly the first
\* min(5, n) values, in traversal order, of the n scalar leaves found at that
\* path: every leaf creates or updates its path's entry, and no sample list is
\* longer than 5.
C7_SamplesOfEveryLeaf ==
    pc = "done" =>
        /\ DOMAIN metadata = FieldPaths(data)
        /\ \A p \in DOMAIN metadata :
              /\ metadata[p].sample_values = FirstFive(LeavesAt(data, p))
              /\ Len(metadata[p].sample_values) <= 5

\* the part of C7 about the length of the sample lists
C7_AtMostFiveSamples ==
    pc = "done" =>
        \A p \in DOMAIN metadata : Len(metadata[p].sample_values) <= 5

\* the scalar leaves of d that are the value of a dict key, with their paths, in
\* traversal order
RECURSIVE KeyedLeaves(_, _)
RECURSIVE KeyedLeavesOfItems(_, _)
RECURSIVE KeyedLeavesOfElements(_, _)
KeyedLeavesOfItems(items, path) ==
    IF items = <<>> THEN <<>>
    ELSE LET val == Head(items)[2]
             current_path == CurrentPath(path, Head(items)[1])
         IN  (IF IsContainer(val) THEN KeyedLeaves(val, current_path)
              ELSE <<[path |-> current_path, leaf |-> val]>>)
             \o KeyedLeavesOfItems(Tail(items), path)

KeyedLeavesOfElements(items, path) ==
    IF items = <<>> THEN <<>>
    ELSE KeyedLeaves(Head(items), path) \o KeyedLeavesOfElements(Tail(items), path)

KeyedLeaves(d, path) ==
    IF d.kind = "dict" THEN KeyedLeavesOfItems(d.items, path)
    ELSE IF d.kind = "list" THEN KeyedLeavesOfElements(d.items, path)
    ELSE <<>>

\* C7 with "leaf" read as a scalar that is the value of a dict key: a scalar
\* that is an element of a list, or the whole document, has no entry
C7_SamplesOfKeyedLeaves ==
    pc = "done" =>
        LET leaves == KeyedLeaves(data, "")
            at(p) == SelectSeq(leaves, LAMBDA l : l.path = p)
        IN  /\ DOMAIN metadata = {l.path : l \in Range(leaves)}
            /\ \A p \in DOMAIN metadata :
                  /\ metadata[p].sample_values =
                         FirstFive([i \in DOMAIN at(p) |-> at(p)[i].leaf])
                  /\ metadata[p].dtype = at(p)[1].leaf.kind

(***************************************************************************)
(* Overlap identification.  The dicts of identify_overlaps are read in     *)
(* insertion order, so they are sequences of <<key, value>> pairs.         *)
(***************************************************************************)
Keys(d) == [i \in DOMAIN d |-> d[i][1]]

HasKey(d, k) == \E i \in DOMAIN d : d[i][1] = k

\* d[k], and the empty dict when d has no key k
Get(d, k) ==
    IF HasKey(d, k) THEN d[CHOOSE i \in DOMAIN d : d[i][1] = k][2] ELSE <<>>

\* d[k] = v: the value of an existing key is replaced in place, a new key is
\* appended
Put(d, k, v) ==
    IF HasKey(d, k)
    THEN [i \in DOMAIN d |-> IF d[i][1] = k THEN <<k, v>> ELSE d[i]]
    ELSE Append(d, <<k, v>>)

\* for field_name, field_meta in fields.items():
\*     if field_name not in field_info: field_info[field_name] = {}
\*     field_info[field_name][source] = field_meta
RECURSIVE CollectFields(_, _, _)
CollectFields(fields, source, field_info) ==
    IF fields = <<>> THEN field_info
    ELSE LET field_name == Head(fields)[1]
             field_meta == Head(fields)[2]
         IN  CollectFields(Tail(fields), source,
                 Put(field_info, field_name,
                     Put(Get(field_info, field_name), source, field_meta)))

\* for source, meta in field_metadata.items(): fields = meta['metadata'] ...
RECURSIVE CollectSources(_, _)
CollectSources(fm, field_info) ==
    IF fm = <<>> THEN field_info
    ELSE CollectSources(Tail(fm),
             CollectFields(Head(fm)[2].metadata, Head(fm)[1], field_info))

\* every field name counts as shared
IsSharedAlways(sources) == Len(sources) >= 1

\* len(sources) > 1
IsShared(sources) == Len(sources) > 1

\* the Overlap Record of one field name
OverlapRecord(field_name, sources) ==
    [field_name |-> field_name,
     sources |-> Keys(sources),
     data_types |-> [i \in DOMAIN sources |-> <<sources[i][1], sources[i][2].dtype>>],
     value_patterns |->
         [i \in DOMAIN sources |->
             <<sources[i][1],
               [j \in DOMAIN sources[i][2].sample_values |->
                   sources[i][2].sample_values[j].kind]>>]]

\* for field_name, sources in field_info.items(): if len(sources) > 1: append
RECURSIVE EmitOverlaps(_)
EmitOverlaps(field_info) ==
    IF field_info = <<>> THEN <<>>
    ELSE (IF IsShared(Head(field_info)[2])
          THEN <<OverlapRecord(Head(field_info)[1], Head(field_info)[2])>>
          ELSE <<>>)
         \o EmitOverlaps(Tail(field_info))

identify_overlaps(fm) == EmitOverlaps(CollectSources(fm, <<>>))

(***************************************************************************)
(* Inputs of the overlap identification.                                   *)
(***************************************************************************)
OverlapSources == {"S1", "S2", "S3", "S4"}

FieldNames == {"id", "name"}

FieldMetas ==
    {[dtype |-> "int", sample_values |-> <<PyInt(1)>>],
     [dtype |-> "object", sample_values |-> <<PyStr(<<"x">>), PyInt(1)>>]}

Absent == [dtype |-> "absent", sample_values |-> <<>>]

\* the metadata dicts of one source: each field name absent or with a Field Metadata
FieldDicts ==
    {(IF a # Absent THEN <<<<"id", a>>>> ELSE <<>>)
     \o (IF b # Absent THEN <<<<"name", b>>>> ELSE <<>>) :
        a \in FieldMetas \cup {Absent},
        b \in {[dtype |-> "object", sample_values |-> <<PyStr(<<"x">>)>>], Absent}}

\* the dicts with at most n sources, none of them in `used`, in every order
RECURSIVE FieldMetadataInputs(_, _)
FieldMetadataInputs(used, n) ==
    IF n = 0 THEN {<<>>}
    ELSE {<<>>}
         \cup UNION {
                {<<<<s, [metadata |-> d]>>>> \o rest :
                    d \in FieldDicts,
                    rest \in FieldMetadataInputs(used \cup {s}, n - 1)} :
                s \in OverlapSources \ used}

InitOverlaps ==
    /\ pc = "ready"
    /\ field_metadata \in FieldMetadataInputs({}, MaxSources)
    /\ overlaps = <<>>
    /\ NoReconcile /\ NoExtract /\ NoConvert

IdentifyOverlaps ==
    /\ pc = "ready"
    /\ overlaps' = identify_overlaps(field_metadata)
    /\ pc' = "done"
    /\ UNCHANGED <<field_metadata, reconcileVars, extractVars, convertVars>>

NextOverlaps == IdentifyOverlaps

SpecOverlaps == InitOverlaps /\ [][NextOverlaps]_vars

\* the sources whose metadata holds field name f
SourcesWith(f) ==
    {field_metadata[i][1] :
        i \in {j \in DOMAIN field_metadata : HasKey(field_metadata[j][2].metadata, f)}}

\* C8: identify_overlaps returns no Overlap Record for a field name present in
\* the metadata of exactly one source, and exactly one Overlap Record for a field
\* name present in N > 1 sources, whose sources list holds all N source
\* identifiers and whose data_types and value_patterns have one key for each of
\* those N sources.
C8_OneRecordPerSharedField ==
    pc = "done" =>
        \A f \in FieldNames :
            LET with == SourcesWith(f)
                records == {i \in DOMAIN overlaps : overlaps[i].field_name = f}
            IN  /\ Cardinality(with) <= 1 => records = {}
                /\ Cardinality(with) > 1 =>
                      /\ Cardinality(records) = 1
                      /\ \A i \in records :
                            /\ Range(overlaps[i].sources) = with
                            /\ Len(overlaps[i].sources) = Cardinality(with)
                            /\ Range(Keys(overlaps[i].data_types)) = with
                            /\ Len(overlaps[i].data_types) = Cardinality(with)
                            /\ Range(Keys(overlaps[i].value_patterns)) = with
                            /\ Len(overlaps[i].value_patterns) = Cardinality(with)

\* C8's case: field id is in three sources and has its one record, field name is
\* in one source only and has none
C8_Witness ==
    /\ pc = "done"
    /\ Cardinality(SourcesWith("id")) = 3
    /\ Cardinality(SourcesWith("name")) = 1
    /\ Len(overlaps) = 1
    /\ overlaps[1].field_name = "id"
    /\ Len(overlaps[1].sources) = 3

(***************************************************************************)
(* Value conversion.  A float is [kind |-> "float", milli |-> m], the       *)
(* number m / 1000.                                                        *)
(***************************************************************************)
PyFloat(m) == [kind |-> "float", milli |-> m]
PyDateTime(y, m, d) == [kind |-> "datetime", year |-> y, month |-> m, day |-> d]

\* the outcome of the body of a try block
Ok(v) == [ok |-> TRUE, v |-> v, error |-> "none"]
Err(e) == [ok |-> FALSE, v |-> None, error |-> e]

Digits == <<"0", "1", "2", "3", "4", "5", "6", "7", "8", "9">>

IsDigit(c) == c \in Range(Digits)

DigitValue(c) == (CHOOSE i \in DOMAIN Digits : Digits[i] = c) - 1

AllDigits(chars) == \A i \in DOMAIN chars : IsDigit(chars[i])

RECURSIVE ParseNat(_)
ParseNat(chars) ==
    IF chars = <<>> THEN 0
    ELSE 10 * ParseNat(SubSeq(chars, 1, Len(chars) - 1)) + DigitValue(chars[Len(chars)])

RECURSIVE NatChars(_)
NatChars(n) ==
    IF n < 10 THEN <<Digits[n + 1]>>
    ELSE NatChars(n \div 10) \o <<Digits[(n % 10) + 1]>>

Abs(n) == IF n < 0 THEN -n ELSE n

\* str.strip(): leading and trailing whitespace removed
RECURSIVE Strip(_)
Strip(chars) ==
    IF chars = <<>> THEN chars
    ELSE IF Head(chars) = " " THEN Strip(Tail(chars))
    ELSE IF chars[Len(chars)] = " " THEN Strip(SubSeq(chars, 1, Len(chars) - 1))
    ELSE chars

Signed(chars) == chars # <<>> /\ Head(chars) \in {"-", "+"}

Unsigned(chars) == IF Signed(chars) THEN Tail(chars) ELSE chars

SignOf(chars) == IF Signed(chars) /\ Head(chars) = "-" THEN -1 ELSE 1

\* int(value)
IntOf(v) ==
    CASE v.kind = "int" -> Ok(v)
      [] v.kind = "float" ->
            Ok(PyInt((IF v.milli < 0 THEN -1 ELSE 1) * (Abs(v.milli) \div 1000)))
      [] v.kind = "str" ->
            LET s == Strip(v.chars)
                body == Unsigned(s)
            IN  IF body # <<>> /\ AllDigits(body)
                THEN Ok(PyInt(SignOf(s) * ParseNat(body)))
                ELSE Err("ValueError")
      [] OTHER -> Err("TypeError")

\* the fraction digits as thousandths
Thousandths(frac) ==
    ParseNat(SubSeq(frac \o <<"0", "0", "0">>, 1, 3))

\* float(value)
FloatOf(v) ==
    CASE v.kind = "int" -> Ok(PyFloat(v.n * 1000))
      [] v.kind = "float" -> Ok(v)
      [] v.kind = "str" ->
            LET s == Strip(v.chars)
                body == Unsigned(s)
                dots == {i \in DOMAIN body : body[i] = "."}
                dot == IF dots = {} THEN Len(body) + 1 ELSE CHOOSE i \in dots : TRUE
                whole == SubSeq(body, 1, dot - 1)
                frac == SubSeq(body, dot + 1, Len(body))
            IN  IF /\ Cardinality(dots) <= 1
                   /\ AllDigits(whole) /\ AllDigits(frac)
                   /\ Len(whole) + Len(frac) > 0
                THEN Ok(PyFloat(SignOf(s) * (ParseNat(whole) * 1000 + Thousandths(frac))))
                ELSE Err("ValueError")
      [] OTHER -> Err("TypeError")

\* the digits of a fraction of m thousandths, without trailing zeros
FractionChars(m) ==
    IF m % 1000 = 0 THEN <<"0">>
    ELSE IF m % 100 = 0 THEN NatChars(m \div 100)
    ELSE IF m % 10 = 0 THEN <<Digits[(m \div 100) + 1], Digits[((m \div 10) % 10) + 1]>>
    ELSE <<Digits[(m \div 100) + 1], Digits[((m \div 10) % 10) + 1], Digits[(m % 10) + 1]>>

\* str(value)
StrOf(v) ==
    CASE v.kind = "str" -> Ok(v)
      [] v.kind = "int" ->
            Ok(PyStr((IF v.n < 0 THEN <<"-">> ELSE <<>>) \o NatChars(Abs(v.n))))
      [] v.kind = "float" ->
            Ok(PyStr((IF v.milli < 0 THEN <<"-">> ELSE <<>>)
                     \o NatChars(Abs(v.milli) \div 1000) \o <<".">>
                     \o FractionChars(Abs(v.milli) % 1000)))
      [] OTHER -> Ok(PyStr(<<"N", "o", "n", "e">>))

\* the pieces of chars between the occurrences of sep
RECURSIVE Split(_, _)
Split(chars, sep) ==
    LET at == {i \in DOMAIN chars : chars[i] = sep}
    IN  IF at = {} THEN <<chars>>
        ELSE LET i == CHOOSE k \in at : \A j \in at : k <= j
             IN  <<SubSeq(chars, 1, i - 1)>> \o Split(SubSeq(chars, i + 1, Len(chars)), sep)

DaysInMonth(y, m) ==
    IF m = 2
    THEN (IF (y % 4 = 0 /\ y % 100 # 0) \/ y % 400 = 0 THEN 29 ELSE 28)
    ELSE IF m \in {4, 6, 9, 11} THEN 30 ELSE 31

\* datetime.strptime(value, "%Y-%m-%d"): %Y is four digits, %m and %d are one
\* or two digits, and the date must exist
StrptimeOf(v) ==
    IF v.kind # "str" THEN Err("TypeError")
    ELSE LET parts == Split(v.chars, "-")
         IN  IF /\ Len(parts) = 3
                /\ Len(parts[1]) = 4 /\ AllDigits(parts[1])
                /\ Len(parts[2]) \in {1, 2} /\ AllDigits(parts[2])
                /\ Len(parts[3]) \in {1, 2} /\ AllDigits(parts[3])
                /\ ParseNat(parts[1]) >= 1
                /\ ParseNat(parts[2]) \in 1..12
                /\ ParseNat(parts[3]) \in 1..DaysInMonth(ParseNat(parts[1]), ParseNat(parts[2]))
             THEN Ok(PyDateTime(ParseNat(parts[1]), ParseNat(parts[2]), ParseNat(parts[3])))
             ELSE Err("ValueError")

\* the body of the try block
TryConvert(v, t) ==
    CASE t = "int" -> IntOf(v)
      [] t = "float" -> FloatOf(v)
      [] t = "str" -> StrOf(v)
      [] t = "datetime" -> StrptimeOf(v)
      [] OTHER -> Ok(v)

\* except ValueError: a narrower handler
CaughtValueErrorOnly(error) == error = "ValueError"

\* except Exception as e: every error of the conversions is caught
Caught(error) == error \in {"ValueError", "TypeError"}

\* log_error(f"Data type convert - {value} to {new_type} - {str(e)}")
Report(v, t, error) == [value |-> v, new_type |-> t, error |-> error]

\* convert_value_to_type, with the log it leaves
convert_value_to_type(v, t, log) ==
    LET tried == TryConvert(v, t)
    IN  IF tried.ok
        THEN [returned |-> tried.v, raised |-> FALSE, error_log |-> log]
        ELSE IF Caught(tried.error)
        THEN [returned |-> v, raised |-> FALSE,
              error_log |-> Append(log, Report(v, t, tried.error))]
        ELSE [returned |-> None, raised |-> TRUE, error_log |-> log]

(***************************************************************************)
(* Inputs of the conversion.                                               *)
(***************************************************************************)
Alphabet == {"1", "2", "-", ".", " ", "a"}

NotANumber == PyStr(<<"n", "o", "t", "-", "a", "-", "n", "u", "m", "b", "e", "r">>)

SampleStrings ==
    {NotANumber,
     PyStr(<<"2", "0", "2", "4", "-", "0", "2", "-", "2", "9">>),
     PyStr(<<"2", "0", "2", "3", "-", "0", "2", "-", "2", "9">>),
     PyStr(<<"2", "0", "2", "4", "-", "1", "3", "-", "0", "1">>),
     PyStr(<<"2", "0", "2", "4", "-", "1", "-", "5">>),
     PyStr(<<"2", "0", "2", "4", "-", "0", "1">>)}

ConvertValues ==
    {PyInt(n) : n \in {-3, 0, 12}}
    \cup {PyFloat(m) : m \in {-500, 1500, 2000}}
    \cup {None}
    \cup UNION {{PyStr(c) : c \in SeqsOfLen(Alphabet, n)} : n \in 0..MaxStrLen}
    \cup SampleStrings

TargetTypes == {"int", "float", "str", "datetime", "bool"}

InitConvert ==
    /\ pc = "ready"
    /\ value \in ConvertValues
    /\ new_type \in TargetTypes
    /\ returned = None
    /\ raised = FALSE
    /\ error_log = <<>>
    /\ NoReconcile /\ NoExtract /\ NoOverlaps

ConvertValueToType ==
    /\ pc = "ready"
    /\ LET out == convert_value_to_type(value, new_type, error_log)
       IN  /\ returned' = out.returned
           /\ raised' = out.raised
           /\ error_log' = out.error_log
    /\ pc' = "done"
    /\ UNCHANGED <<value, new_type, reconcileVars, extractVars, overlapVars>>

NextConvert == ConvertValueToType

SpecConvert == InitConvert /\ [][NextConvert]_vars

\* C9: convert_value_to_type never raises; if the conversion fails it returns the
\* original value unchanged and emits exactly one conversion-failure report
\* (convert_value("not-a-number", "int") returns "not-a-number"); if the
\* conversion succeeds it returns the converted value and emits no report.
C9_FailureIsReportedNotRaised ==
    pc = "done" =>
        LET tried == TryConvert(value, new_type)
        IN  /\ ~raised
            /\ tried.ok => (returned = tried.v /\ error_log = <<>>)
            /\ ~tried.ok =>
                  /\ returned = value
                  /\ Len(error_log) = 1
                  /\ error_log[1].value = value
                  /\ error_log[1].new_type = new_type
            /\ (value = NotANumber /\ new_type = "int") =>
                  (returned = NotANumber /\ Len(error_log) = 1)
            /\ (value = None /\ new_type \in {"int", "float", "datetime"}) =>
                  (returned = None /\ Len(error_log) = 1)

\* C9's case: "not-a-number" to int came back unchanged with one report
C9_Witness ==
    /\ pc = "done"
    /\ value = NotANumber
    /\ new_type = "int"
    /\ returned = NotANumber
    /\ ~raised
    /\ Len(error_log) = 1

====
